---- MODULE Spec2Model ----
(***************************************************************************)
(* Model of the oae-bbb plugin: the BigBlueButton HTTP/XML proxy           *)
(* (executeBBBCall), the join-URL signer (getJoinMeetingURL) and the       *)
(* search hooks of lib/search.js.                                          *)
(*                                                                         *)
(* Strings are sequences of tokens, so that concatenation is \o and a URL  *)
(* can be taken apart again.  JavaScript runs every handler to completion, *)
(* so each action below is one whole handler.                              *)
(***************************************************************************)
EXTENDS Naturals, Sequences, FiniteSets

VARIABLES invs, calls, wire, qsParams, uncaught,
          emitted, tasks, msgDeletes,
          db, produced

bbbVars == <<invs, calls, wire, qsParams, uncaught>>
searchVars == <<emitted, tasks, msgDeletes>>
producerVars == <<db, produced>>
vars == <<invs, calls, wire, qsParams, uncaught, emitted, tasks, msgDeletes, db, produced>>

----------------------------------------------------------------------------
(* Bounds *)

\* number of getJoinMeetingURL invocations in one behaviour
MaxInv == 2
\* largest number of data chunks one HTTP response body is split into
MaxChunks == 2

----------------------------------------------------------------------------
(* Inputs *)

Tenants == {"t1", "t2"}


\* BBBConfig.getValue(tenantAlias, 'bbb', 'endpoint' | 'secret')
ConfigValue(tenantAlias, key) ==
    IF key = "endpoint"
    THEN (IF tenantAlias = "t1" THEN <<"http://bbb1/">> ELSE <<"http://bbb2/">>)
    ELSE (IF tenantAlias = "t1" THEN <<"secret1">> ELSE <<"secret2">>)

MeetingProfiles ==
    { [id |-> <<"m1">>, displayName |-> <<"Math", " ", "101">>],
      [id |-> <<"m2">>, displayName |-> <<"Q", "&", "A">>] }

Users ==
    { [displayName |-> <<"Ann", " ", "B">>],
      [displayName |-> <<"a", "=", "b", "?">>] }

\* The (ctx, meetingProfile, user) triples getJoinMeetingURL is invoked with
Invocations ==
    { [tenant |-> "t1", meetingProfile |-> <<"m1">>, user |-> <<"Ann", " ", "B">>],
      [tenant |-> "t2", meetingProfile |-> <<"m2">>, user |-> <<"a", "=", "b", "?">>] }

\* The bodies BigBlueButton, or whatever answers in its place, may answer with:
\* the meeting with its passwords, FAILED/notFound (to getMeetingInfo only),
\* or a body that is not XML at all (wellFormed = FALSE).
Bodies(action) ==
    { [wellFormed |-> TRUE, returncode |-> "SUCCESS", messageKey |-> "",
       moderatorPW |-> "mp", attendeePW |-> "ap"],
      [wellFormed |-> FALSE, returncode |-> "", messageKey |-> "",
       moderatorPW |-> "", attendeePW |-> ""] }
    \cup (IF action = "getMeetingInfo"
          THEN { [wellFormed |-> TRUE, returncode |-> "FAILED", messageKey |-> "notFound",
                  moderatorPW |-> "undefined", attendeePW |-> "undefined"] }
          ELSE {})

----------------------------------------------------------------------------
(* Library functions *)

\* sha1: a hash, kept symbolic; distinct inputs give distinct digests
sha1(s) == <<"sha1(">> \o s \o <<")">>

\* String.prototype.substring(from, to) on a digest
substring(s, from, to) ==
    IF from = to THEN <<>>
    ELSE <<"substring(">> \o s \o <<")">>

EncodeChar(c) ==
    CASE c = " " -> "%20"
      [] c = "&" -> "%26"
      [] c = "=" -> "%3D"
      [] c = "?" -> "%3F"
      [] OTHER -> c

encodeURIComponent(s) == [i \in DOMAIN s |-> EncodeChar(s[i])]

----------------------------------------------------------------------------
(* lib/api.js *)

QsAppend(qs, p) ==
    (IF qs # <<>> THEN qs \o <<"&">> ELSE qs) \o <<p.name, "=">> \o p.value

RECURSIVE QsLoop(_, _)
QsLoop(qs, params) ==
    IF params = <<>> THEN qs
    ELSE QsLoop(QsAppend(qs, Head(params)), Tail(params))

\* A version that forgets the reset of the global qsParams.
getQueryStringParamsNoReset(global, params) == QsLoop(global, params)

\* qsParams is an implicit global: `global' is its value on entry, which the
\* first statement overwrites with ''.  The value returned is the value the
\* global is left with.
getQueryStringParams(global, params) == QsLoop(<<>>, params)

\* A version that hashes secret + action + params.
getChecksumSecretFirst(action, secret, params) == sha1(secret \o action \o params)

getChecksum(action, secret, params) == sha1(action \o params \o secret)

getBBBActionURL(endpoint, action, secret, params) ==
    endpoint \o <<"api/">> \o action \o <<"?">> \o params
             \o <<"&checksum=">> \o getChecksum(action, secret, params)

getVerifiedBBBEndpoint(endpoint) == endpoint

getConfig(tenantAlias) ==
    [endpoint |-> getVerifiedBBBEndpoint(ConfigValue(tenantAlias, "endpoint")),
     secret |-> ConfigValue(tenantAlias, "secret")]

----------------------------------------------------------------------------
(* Values passed to callbacks *)

NoErr == [kind |-> "null"]
Undefined == [kind |-> "undefined"]
HttpError(c) == [kind |-> "httpError", call |-> c]
ParseError(c, k) == [kind |-> "parseError", call |-> c, chunk |-> k]
Response(body) ==
    [kind |-> "response", returncode |-> body.returncode, messageKey |-> body.messageKey,
     moderatorPW |-> body.moderatorPW, attendeePW |-> body.attendeePW]
JoinResult(url) == [kind |-> "join", url |-> url]

NoBody == [wellFormed |-> FALSE, returncode |-> "none", messageKey |-> "",
           moderatorPW |-> "", attendeePW |-> ""]

----------------------------------------------------------------------------
(* lib/internal/proxy.js *)

\* xml2js parseString on one data chunk: the k-th chunk of the body, which is
\* the last one iff `last'.  Only a chunk that holds the whole of a well-formed
\* body is a document; a fragment of one is a parse error.
parseString(c, body, k, last) ==
    IF k = 1 /\ last /\ body.wellFormed
    THEN [err |-> NoErr, result |-> Response(body)]
    ELSE [err |-> ParseError(c, k), result |-> Undefined]

\* The callback of parseString: what executeBBBCall hands to its own callback.
ProxyCallbackArgs(parsed) ==
    IF parsed.err # NoErr
    THEN [err |-> parsed.err, result |-> Undefined]
    ELSE [err |-> NoErr, result |-> parsed.result]

\* executeBBBCall(url, callback): one http.request(url, ...).end().
\* cs and w are the calls made and the requests written so far by the
\* invocation; returns both after the request has been written.
executeBBBCall(cs, w, action, url) ==
    [calls |-> Append(cs, [action |-> action,
                           status |-> "sent", body |-> NoBody,
                           delivered |-> 0, cbs |-> <<>>]),
     wire |-> Append(w, [call |-> Len(cs) + 1, url |-> url])]

----------------------------------------------------------------------------
(* getJoinMeetingURL and its callbacks *)

Param(name, value) == [name |-> name, value |-> value]

\* getJoinMeetingURL(ctx, meetingProfile, user, callback), up to the return
\* of executeBBBCall
GetJoinMeetingURL(tenant, meetingProfile, user) ==
    /\ Len(invs) < MaxInv
    /\ LET config == getConfig(tenant)
           fullName == encodeURIComponent(user.displayName)
           meetingID == sha1(meetingProfile.id \o config.secret)
           meetingName == encodeURIComponent(meetingProfile.displayName)
           moderatorPW == sha1(substring(meetingID, 0, 8) \o config.secret)
           attendeePW == sha1(substring(meetingID, 8, 8) \o config.secret)
           qs == getQueryStringParams(qsParams, <<Param("meetingID", meetingID)>>)
           getMeetingInfoURL ==
               getBBBActionURL(config.endpoint, <<"getMeetingInfo">>, config.secret, qs)
           sent == executeBBBCall(<<>>, <<>>, "getMeetingInfo", getMeetingInfoURL)
       IN /\ invs' = Append(invs,
                 [tenant |-> tenant, meetingProfile |-> meetingProfile, user |-> user,
                  config |-> config, fullName |-> fullName, meetingID |-> meetingID,
                  meetingName |-> meetingName, moderatorPW |-> moderatorPW,
                  attendeePW |-> attendeePW, cb |-> <<>>])
          /\ qsParams' = qs
          /\ calls' = Append(calls, sent.calls)
          /\ wire' = Append(wire, sent.wire)
    /\ UNCHANGED <<uncaught, searchVars, producerVars>>

\* The join URL built at the end of the getMeetingInfo callback
JoinURL(inv, global, password) ==
    LET qs == getQueryStringParams(global,
                  <<Param("meetingID", inv.meetingID), Param("fullName", inv.fullName),
                    Param("password", password)>>)
    IN [qs |-> qs,
        url |-> getBBBActionURL(inv.config.endpoint, <<"join">>, inv.config.secret, qs)]

\* The callback getJoinMeetingURL gives to the getMeetingInfo call; calls1 is
\* the invocation's calls with the chunk recorded.
OnMeetingInfo(i, a, calls1) ==
    LET inv == invs[i] IN
    IF a.err # NoErr
    THEN /\ invs' = [invs EXCEPT ![i].cb = Append(@, [err |-> a.err, result |-> Undefined])]
         /\ calls' = [calls EXCEPT ![i] = calls1]
         /\ UNCHANGED <<wire, qsParams>>
    ELSE IF a.result.returncode = "FAILED" /\ a.result.messageKey = "notFound"
    THEN LET createQs == getQueryStringParams(qsParams,
                             <<Param("meetingID", inv.meetingID)>>)
             getCreateMeetingURL ==
                 getBBBActionURL(inv.config.endpoint, <<"create">>, inv.config.secret, createQs)
             sent == executeBBBCall(calls1, wire[i], "create", getCreateMeetingURL)
             join == JoinURL(inv, createQs, inv.moderatorPW)
         IN /\ calls' = [calls EXCEPT ![i] = sent.calls]
            /\ wire' = [wire EXCEPT ![i] = sent.wire]
            /\ qsParams' = join.qs
            /\ invs' = [invs EXCEPT ![i].cb =
                            Append(@, [err |-> NoErr, result |-> JoinResult(join.url)])]
    ELSE LET join == JoinURL(inv, qsParams, <<a.result.moderatorPW>>)
         IN /\ calls' = [calls EXCEPT ![i] = calls1]
            /\ UNCHANGED wire
            /\ qsParams' = join.qs
            /\ invs' = [invs EXCEPT
                          ![i].moderatorPW = <<a.result.moderatorPW>>,
                          ![i].attendeePW = <<a.result.attendeePW>>,
                          ![i].cb = Append(@, [err |-> NoErr, result |-> JoinResult(join.url)])]

\* The callback getJoinMeetingURL gives to the create call
OnCreate(i, a, calls1) ==
    /\ calls' = [calls EXCEPT ![i] = calls1]
    /\ UNCHANGED <<wire, qsParams>>
    /\ IF a.err # NoErr
       THEN invs' = [invs EXCEPT ![i].cb = Append(@, [err |-> a.err, result |-> Undefined])]
       ELSE invs' = [invs EXCEPT ![i].moderatorPW = <<a.result.moderatorPW>>,
                                 ![i].attendeePW = <<a.result.attendeePW>>]

\* The response callback of http.request with its res.on('data') handler:
\* the next chunk of the response to call j of invocation i arrives.  The
\* network decides what the body is (with the first chunk) and whether this
\* chunk is the last.  The chunk is parsed on its own and the callbacks run.
OnData(i, j, body, last) ==
    /\ calls[i][j].status \in {"sent", "responding"}
    /\ calls[i][j].status = "responding" => body = calls[i][j].body
    /\ calls[i][j].delivered + 1 = MaxChunks => last
    /\ LET call == calls[i][j]
           k == call.delivered + 1
           a == ProxyCallbackArgs(parseString(<<i, j>>, body, k, last))
           calls1 == [calls[i] EXCEPT ![j].body = body,
                                      ![j].delivered = k,
                                      ![j].status = IF last THEN "done" ELSE "responding",
                                      ![j].cbs = Append(@, a)]
       IN IF call.action = "getMeetingInfo"
          THEN OnMeetingInfo(i, a, calls1)
          ELSE OnCreate(i, a, calls1)
    /\ UNCHANGED <<uncaught, searchVars, producerVars>>

\* The request of call j of invocation i fails (connection refused, reset,
\* DNS): the ClientRequest emits 'error'.  executeBBBCall registers no 'error'
\* listener, so the error is thrown as an uncaught exception; no callback runs.
OnRequestError(i, j) ==
    /\ calls[i][j].status = "sent"
    /\ calls' = [calls EXCEPT ![i][j].status = "httpError"]
    /\ uncaught' = uncaught \cup {HttpError(<<i, j>>)}
    /\ UNCHANGED <<invs, wire, qsParams, searchVars, producerVars>>

InitBBB ==
    /\ invs = <<>>
    /\ calls = <<>>
    /\ wire = <<>>
    /\ qsParams = <<>>
    /\ uncaught = {}

NextBBB ==
    \/ \E t \in Tenants, m \in MeetingProfiles, u \in Users :
          /\ [tenant |-> t, meetingProfile |-> m.id, user |-> u.displayName] \in Invocations
          /\ GetJoinMeetingURL(t, m, u)
    \/ \E i \in DOMAIN calls : \E j \in DOMAIN calls[i], last \in BOOLEAN :
          \E b \in Bodies(calls[i][j].action) : OnData(i, j, b, last)
    \/ \E i \in DOMAIN calls : \E j \in DOMAIN calls[i] : OnRequestError(i, j)

----------------------------------------------------------------------------
(* lib/search.js: indexing tasks *)

\* number of events emitted in one behaviour
MaxEvents == 3

MeetingIds == {"d:t1:a", "d:t1:b"}
Messages == {"msg1", "msg2"}

NoMessages == <<>>
Resource(id) == [id |-> id, hasMessages |-> FALSE, messages |-> NoMessages]
ResourceWithMessages(id, messages) ==
    [id |-> id, hasMessages |-> TRUE, messages |-> messages]

\* SearchAPI.postIndexTask(resourceType, resources, index)
postIndexTask(resourceType, resources, resource, children) ==
    [op |-> "index", resourceType |-> resourceType, resources |-> resources,
     resource |-> resource, children |-> children, id |-> ""]

\* SearchAPI.postDeleteTask(id)
postDeleteTask(id) ==
    [op |-> "delete", resourceType |-> "", resources |-> <<>>,
     resource |-> FALSE, children |-> {}, id |-> id]

Event(name, meeting, message) == [name |-> name, meeting |-> meeting, message |-> message]

Emit(name, meeting, message) ==
    /\ Len(emitted) < MaxEvents
    /\ emitted' = Append(emitted, Event(name, meeting, message))

OnCreatedMeeting(meeting) ==
    /\ Emit("CREATED_MEETING", meeting, "")
    /\ tasks' = Append(tasks,
           postIndexTask("meeting", <<Resource(meeting)>>, TRUE, {"resource_members"}))
    /\ UNCHANGED <<msgDeletes, bbbVars, producerVars>>

OnUpdatedMeeting(meeting) ==
    /\ Emit("UPDATED_MEETING", meeting, "")
    /\ tasks' = Append(tasks, postIndexTask("meeting", <<Resource(meeting)>>, TRUE, {}))
    /\ UNCHANGED <<msgDeletes, bbbVars, producerVars>>

\* A version that also reindexes the resource document, as the
\* CREATED_MEETING handler does.
OnUpdatedMeetingMembersWithResource(meeting) ==
    /\ Emit("UPDATED_MEETING_MEMBERS", meeting, "")
    /\ tasks' = Append(tasks,
           postIndexTask("meeting", <<Resource(meeting)>>, TRUE, {"resource_members"}))
    /\ UNCHANGED <<msgDeletes, bbbVars, producerVars>>

OnUpdatedMeetingMembers(meeting) ==
    /\ Emit("UPDATED_MEETING_MEMBERS", meeting, "")
    /\ tasks' = Append(tasks,
           postIndexTask("meeting", <<Resource(meeting)>>, FALSE, {"resource_members"}))
    /\ UNCHANGED <<msgDeletes, bbbVars, producerVars>>

OnDeletedMeeting(meeting) ==
    /\ Emit("DELETED_MEETING", meeting, "")
    /\ tasks' = Append(tasks, postDeleteTask(meeting))
    /\ UNCHANGED <<msgDeletes, bbbVars, producerVars>>

OnCreatedMeetingMessage(message, meeting) ==
    /\ Emit("CREATED_MEETING_MESSAGE", meeting, message)
    /\ LET resource == ResourceWithMessages(meeting, <<message>>)
       IN tasks' = Append(tasks,
              postIndexTask("meeting", <<resource>>, FALSE, {"meeting_message"}))
    /\ UNCHANGED <<msgDeletes, bbbVars, producerVars>>

\* The handler hands the deletion to MessageBoxSearch.deleteMessageSearchDocument
\* and posts nothing to SearchAPI itself.
OnDeletedMeetingMessage(message, meeting) ==
    /\ Emit("DELETED_MEETING_MESSAGE", meeting, message)
    /\ msgDeletes' = Append(msgDeletes,
           [mapping |-> "meeting_message", meeting |-> meeting, message |-> message])
    /\ UNCHANGED <<tasks, bbbVars, producerVars>>

InitSearch ==
    /\ emitted = <<>>
    /\ tasks = <<>>
    /\ msgDeletes = <<>>

NextSearch ==
    \/ \E m \in MeetingIds : OnCreatedMeeting(m)
    \/ \E m \in MeetingIds : OnUpdatedMeeting(m)
    \/ \E m \in MeetingIds : OnUpdatedMeetingMembers(m)
    \/ \E m \in MeetingIds : OnDeletedMeeting(m)
    \/ \E m \in MeetingIds, msg \in Messages : OnCreatedMeetingMessage(msg, m)
    \/ \E m \in MeetingIds, msg \in Messages : OnDeletedMeetingMessage(msg, m)

----------------------------------------------------------------------------
(* lib/search.js: the document producer for resource type 'meeting' *)

\* longest list of resources handed to the producer
MaxResources == 3

\* The meeting object with a given id, as the DAO stores it or as a caller
\* supplies it on resource.meeting
Meeting(id) ==
    [id |-> id, tenantAlias |-> "t1",
     displayName |-> IF id = "d:t1:a" THEN "Algebra" ELSE "Biology",
     description |-> IF id = "d:t1:a" THEN "weekly" ELSE "",
     visibility |-> "public", lastModified |-> "1400000000000"]

NoMeeting == [id |-> "", tenantAlias |-> "", displayName |-> "", description |-> "",
              visibility |-> "", lastModified |-> ""]

\* A resource of an index task: with or without the meeting object on it
ProducerResources ==
    { [id |-> id, hasMeeting |-> h, meeting |-> IF h THEN Meeting(id) ELSE NoMeeting] :
        id \in MeetingIds, h \in BOOLEAN }

RECURSIVE SeqsUpTo(_, _)
SeqsUpTo(S, n) ==
    IF n = 0 THEN {<<>>}
    ELSE LET shorter == SeqsUpTo(S, n - 1)
         IN shorter \cup {Append(q, x) : q \in shorter, x \in S}

\* _.compact on a list of meetings: drops the missing ones
RECURSIVE compact(_)
compact(ms) ==
    IF ms = <<>> THEN <<>>
    ELSE IF Head(ms) = NoMeeting THEN compact(Tail(ms))
         ELSE <<Head(ms)>> \o compact(Tail(ms))

\* MeetingsDAO.getMeetingsById(meetingIds, null, callback): the meetings in
\* the order of the ids, a missing one left empty
getMeetingsById(meetingIds) ==
    [k \in DOMAIN meetingIds |->
        IF meetingIds[k] \in db THEN Meeting(meetingIds[k]) ELSE NoMeeting]

\* _produceMeetingSearchDocument(meeting)
produceMeetingSearchDocument(meeting) ==
    [resourceType |-> "meeting", id |-> meeting.id, tenantAlias |-> meeting.tenantAlias,
     displayName |-> meeting.displayName, visibility |-> meeting.visibility,
     q_high |-> meeting.displayName,
     q_low |-> IF meeting.description = "" THEN <<meeting.displayName>>
               ELSE <<meeting.displayName, " ", meeting.description>>,
     sort |-> meeting.displayName, lastModified |-> meeting.lastModified,
     description |-> meeting.description]

RECURSIVE IdsWithoutMeeting(_)
IdsWithoutMeeting(resources) ==
    IF resources = <<>> THEN <<>>
    ELSE IF Head(resources).hasMeeting THEN IdsWithoutMeeting(Tail(resources))
         ELSE <<Head(resources).id>> \o IdsWithoutMeeting(Tail(resources))

\* _getMeetings(resources, callback).  The branch for a resource that carries
\* its meeting pushes onto `dicussions', a name that is declared nowhere: the
\* statement throws a ReferenceError and the callback is never invoked.
getMeetings(resources, daoFails) ==
    IF \E k \in DOMAIN resources : resources[k].hasMeeting
    THEN [outcome |-> "throw", err |-> "ReferenceError", meetings |-> <<>>]
    ELSE LET meetingIds == IdsWithoutMeeting(resources)
         IN IF meetingIds = <<>>
            THEN [outcome |-> "callback", err |-> "", meetings |-> <<>>]
            ELSE IF daoFails
                 THEN [outcome |-> "callback", err |-> "daoError", meetings |-> <<>>]
                 ELSE [outcome |-> "callback", err |-> "",
                       meetings |-> getMeetingsById(meetingIds)]

\* _produceMeetingSearchDocuments(resources, callback): what the caller sees
produceMeetingSearchDocuments(resources, daoFails) ==
    LET got == getMeetings(resources, daoFails)
    IN IF got.outcome = "throw"
       THEN [outcome |-> "throw", thrown |-> got.err, errs |-> <<>>, docs |-> <<>>]
       ELSE IF got.err # ""
       THEN [outcome |-> "callback", thrown |-> "", errs |-> <<got.err>>, docs |-> <<>>]
       ELSE LET meetings == compact(got.meetings)
            IN [outcome |-> "callback", thrown |-> "", errs |-> <<>>,
                docs |-> [k \in DOMAIN meetings |-> produceMeetingSearchDocument(meetings[k])]]

\* The search indexer calls the registered producer with the resources of a task.
ProduceMeetingSearchDocuments(resources, daoFails) ==
    /\ produced' = [resources |-> resources, daoFails |-> daoFails,
                    called |-> TRUE,
                    result |-> produceMeetingSearchDocuments(resources, daoFails)]
    /\ UNCHANGED <<db, bbbVars, searchVars>>

NotProduced ==
    [resources |-> <<>>, daoFails |-> FALSE, called |-> FALSE,
     result |-> [outcome |-> "none", thrown |-> "", errs |-> <<>>, docs |-> <<>>]]

ProducerIdle ==
    /\ db = {}
    /\ produced = NotProduced

InitProducer ==
    /\ db \in SUBSET MeetingIds
    /\ produced = NotProduced

NextProducer ==
    \E resources \in SeqsUpTo(ProducerResources, MaxResources), daoFails \in BOOLEAN :
        ProduceMeetingSearchDocuments(resources, daoFails)

----------------------------------------------------------------------------
(* Specifications *)

Init == InitBBB /\ InitSearch /\ ProducerIdle

InitWithDb == InitBBB /\ InitSearch /\ InitProducer

SpecBBB == Init /\ [][NextBBB]_vars

SpecSearch == Init /\ [][NextSearch]_vars

SpecProducer == InitWithDb /\ [][NextProducer]_vars

----------------------------------------------------------------------------
(* Reading a URL back *)

RECURSIVE IndexFrom(_, _, _)
IndexFrom(s, tok, k) ==
    IF k > Len(s) THEN 0
    ELSE IF s[k] = tok THEN k
    ELSE IndexFrom(s, tok, k + 1)

\* position of the first occurrence of a token, 0 if there is none
IndexOf(s, tok) == IndexFrom(s, tok, 1)

\* the positions of a token in a string
Positions(s, tok) == {k \in DOMAIN s : s[k] = tok}

\* the value of the password parameter, the last one of a join URL
PasswordOf(url) ==
    SubSeq(url, IndexOf(url, "password") + 2, IndexOf(url, "&checksum=") - 1)

\* The URL is endpoint + 'api/' + action + '?' + params + '&checksum=' + c with
\* c the hash of action + params + secret, params being read from the URL:
\* what stands between its '?' and its '&checksum='.
SignedAt(url, q, c, tenant, action) ==
    /\ q < c
    /\ SubSeq(url, 1, q - 1) = ConfigValue(tenant, "endpoint") \o <<"api/", action>>
    /\ SubSeq(url, c + 1, Len(url))
         = sha1(<<action>> \o SubSeq(url, q + 1, c - 1) \o ConfigValue(tenant, "secret"))

SignedFor(url, tenant, action) ==
    /\ Cardinality(Positions(url, "?")) = 1
    /\ Cardinality(Positions(url, "&checksum=")) = 1
    /\ \A q \in Positions(url, "?") : \A c \in Positions(url, "&checksum=") :
           SignedAt(url, q, c, tenant, action)

\* what stands between '?' and '&checksum=' in a URL
QueryOf(url) == SubSeq(url, IndexOf(url, "?") + 1, IndexOf(url, "&checksum=") - 1)

JoinEntries(i) == {k \in DOMAIN invs[i].cb : invs[i].cb[k].result.kind = "join"}
ErrEntries(i) == {k \in DOMAIN invs[i].cb : invs[i].cb[k].err # NoErr}

----------------------------------------------------------------------------
(* Claims about the BigBlueButton client, under SpecBBB *)

\* C1: every URL getJoinMeetingURL builds (the getMeetingInfo and create
\* requests it sends, the join URL it hands to its callback) is
\* endpoint + 'api/' + action + '?' + params + '&checksum=' + c, with c the
\* SHA-1 of action + params + secret for the params of that same URL and the
\* secret configured for the tenant of the calling context.
C1_UrlsAreSigned ==
    \A i \in DOMAIN invs :
        /\ \A r \in DOMAIN wire[i] :
               SignedFor(wire[i][r].url, invs[i].tenant, calls[i][wire[i][r].call].action)
        /\ \A k \in JoinEntries(i) :
               SignedFor(invs[i].cb[k].result.url, invs[i].tenant, "join")

\* An invocation has built all three kinds of URL.
C1_Witness ==
    \E i \in DOMAIN invs :
        /\ Len(wire[i]) = 2
        /\ calls[i][2].action = "create"
        /\ JoinEntries(i) # {}

\* What an invocation running alone sends and reports, from its own arguments,
\* the tenant's configuration and the callbacks of its own calls.
SoloUrl(inv, action, params) ==
    LET config == getConfig(inv.tenant)
    IN getBBBActionURL(config.endpoint, <<action>>, config.secret, QsLoop(<<>>, params))

SoloMeetingID(inv) ==
    sha1(inv.meetingProfile.id \o ConfigValue(inv.tenant, "secret"))

SoloModeratorPW(inv) ==
    sha1(substring(SoloMeetingID(inv), 0, 8) \o ConfigValue(inv.tenant, "secret"))

SoloJoin(inv, password) ==
    JoinResult(SoloUrl(inv, "join",
        <<Param("meetingID", SoloMeetingID(inv)),
          Param("fullName", encodeURIComponent(inv.user.displayName)),
          Param("password", password)>>))

IsNotFound(a) ==
    a.err = NoErr /\ a.result.returncode = "FAILED" /\ a.result.messageKey = "notFound"

SoloInfoEntry(inv, a) ==
    IF a.err # NoErr THEN [err |-> a.err, result |-> Undefined]
    ELSE [err |-> NoErr,
          result |-> SoloJoin(inv, IF IsNotFound(a) THEN SoloModeratorPW(inv)
                                   ELSE <<a.result.moderatorPW>>)]

SoloWire(i) ==
    LET inv == invs[i]
        meetingID == <<Param("meetingID", SoloMeetingID(inv))>>
        info == calls[i][1].cbs
    IN <<[call |-> 1, url |-> SoloUrl(inv, "getMeetingInfo", meetingID)]>>
       \o (IF \E k \in DOMAIN info : IsNotFound(info[k])
           THEN <<[call |-> 2, url |-> SoloUrl(inv, "create", meetingID)]>>
           ELSE <<>>)

SoloCb(i) ==
    LET inv == invs[i]
        info == calls[i][1].cbs
        create == IF Len(calls[i]) > 1 THEN calls[i][2].cbs ELSE <<>>
        createErrs == SelectSeq(create, LAMBDA a : a.err # NoErr)
    IN [k \in DOMAIN info |-> SoloInfoEntry(inv, info[k])]
       \o [k \in DOMAIN createErrs |-> [err |-> createErrs[k].err, result |-> Undefined]]

\* C4: whatever the interleaving of several invocations, the requests an
\* invocation sends and the results its callback receives are those it would
\* send and receive running alone: a function of its own arguments, the
\* tenant's endpoint and secret, and the responses to its own requests.
C4_NoInterference ==
    \A i \in DOMAIN invs :
        /\ wire[i] = SoloWire(i)
        /\ invs[i].cb = SoloCb(i)

\* Two invocations of different tenants are in flight together, both waiting
\* for their create call with a join URL already reported, and the first one's
\* handler ran last (the global query string is the one it left).
C4_Witness ==
    /\ Len(invs) = 2
    /\ invs[1].tenant # invs[2].tenant
    /\ \A i \in {1, 2} :
           /\ Len(calls[i]) = 2
           /\ calls[i][2].status = "sent"
           /\ JoinEntries(i) # {}
    /\ qsParams = QueryOf(invs[1].cb[1].result.url)

\* C2: an HTTP failure or a parse failure in executeBBBCall reaches its
\* callback as that error object; and when the getMeetingInfo or create call of
\* an invocation ends in such an error, the caller's callback receives that
\* error and the invocation reports no join URL.
C2_ErrorsReachCallbacks ==
    \A i \in DOMAIN invs : \A j \in DOMAIN calls[i] :
        LET call == calls[i][j]
            failure == IF call.status = "httpError" THEN {HttpError(<<i, j>>)}
                       ELSE IF call.status = "done" /\ ~call.body.wellFormed
                       THEN {ParseError(<<i, j>>, 1)}
                       ELSE {}
        IN \A e \in failure :
              /\ \E k \in DOMAIN call.cbs : call.cbs[k].err = e
              /\ \E k \in DOMAIN invs[i].cb : invs[i].cb[k].err = e
              /\ JoinEntries(i) = {}

\* C3: every executeBBBCall writes exactly one request and none is re-sent;
\* an invocation sends one getMeetingInfo request first and then at most one
\* create request, sent iff the getMeetingInfo response is FAILED/notFound;
\* no join request is ever sent.
C3_Requests ==
    \A i \in DOMAIN invs :
        LET info == calls[i][1]
            creates == {j \in DOMAIN calls[i] : calls[i][j].action = "create"}
        IN /\ Len(wire[i]) = Len(calls[i])
           /\ \A r \in DOMAIN wire[i] :
                  /\ wire[i][r].call = r
                  /\ IndexOf(wire[i][r].url, "join") = 0
           /\ info.action = "getMeetingInfo"
           /\ \A j \in DOMAIN calls[i] : j > 1 => calls[i][j].action = "create"
           /\ Cardinality(creates) <= 1
           /\ creates # {} =>
                  info.body.returncode = "FAILED" /\ info.body.messageKey = "notFound"
           /\ (info.status = "done" /\ info.body.returncode = "FAILED"
                   /\ info.body.messageKey = "notFound") => creates # {}

\* C6: a join URL is reported only once BigBlueButton has reported the meeting
\* in its getMeetingInfo response or has answered the create request; after a
\* FAILED/notFound the join URL comes after the create response and carries
\* the moderator password of that response.
C6_JoinAfterRunning ==
    \A i \in DOMAIN invs : \A k \in JoinEntries(i) :
        LET info == calls[i][1]
            created == Len(calls[i]) > 1 /\ calls[i][2].status = "done"
                          /\ calls[i][2].body.wellFormed
        IN /\ (info.body.returncode = "SUCCESS") \/ created
           /\ info.body.messageKey = "notFound" =>
                  /\ created
                  /\ PasswordOf(invs[i].cb[k].result.url) = <<calls[i][2].body.moderatorPW>>

\* A call has been answered: its response has arrived completely.
Answered(call) == call.status = "done"

\* C7: the caller's callback runs at most once per invocation, exactly once
\* when every call of the invocation has been answered, and either with an
\* error and no result or with a join URL and no error.
C7_CallbackOnce ==
    \A i \in DOMAIN invs :
        /\ Len(invs[i].cb) <= 1
        /\ (\A j \in DOMAIN calls[i] : Answered(calls[i][j])) => Len(invs[i].cb) = 1
        /\ \A k \in DOMAIN invs[i].cb :
               (invs[i].cb[k].err # NoErr) # (invs[i].cb[k].result.kind = "join")
        /\ ~(ErrEntries(i) # {} /\ JoinEntries(i) # {})

\* C8: when the response of a call has arrived, in one chunk or in several,
\* the callback of executeBBBCall has run exactly once, with the parse result
\* (or the parse error) of the complete body.
C8_OneCallbackPerResponse ==
    \A i \in DOMAIN invs : \A j \in DOMAIN calls[i] :
        LET call == calls[i][j]
        IN /\ Len(call.cbs) <= 1
           /\ call.status = "done" =>
                  call.cbs = <<ProxyCallbackArgs(parseString(<<i, j>>, call.body, 1, TRUE))>>

----------------------------------------------------------------------------
(* Claims about the search hooks, under SpecSearch and SpecProducer *)

TaskEventNames ==
    {"CREATED_MEETING", "UPDATED_MEETING", "UPDATED_MEETING_MEMBERS",
     "DELETED_MEETING", "CREATED_MEETING_MESSAGE"}

TaskEvents == SelectSeq(emitted, LAMBDA e : e.name \in TaskEventNames)

\* an index task for exactly the meeting of the event
IndexesMeeting(t, e) ==
    /\ t.op = "index"
    /\ t.resourceType = "meeting"
    /\ Len(t.resources) = 1
    /\ t.resources[1].id = e.meeting

\* C5: every meeting lifecycle event posts exactly one search task, for the
\* meeting of the event: CREATED_MEETING indexes the resource document and the
\* resource_members child, UPDATED_MEETING the resource document only,
\* UPDATED_MEETING_MEMBERS the resource_members child only,
\* CREATED_MEETING_MESSAGE the meeting_message child only with just the new
\* message, and DELETED_MEETING posts a delete task and no index task.
C5_OneTaskPerEvent ==
    /\ Len(tasks) = Len(TaskEvents)
    /\ \A k \in DOMAIN TaskEvents :
         LET e == TaskEvents[k]
             t == tasks[k]
         IN CASE e.name = "CREATED_MEETING" ->
                    /\ IndexesMeeting(t, e)
                    /\ t.resource /\ t.children = {"resource_members"}
                    /\ ~t.resources[1].hasMessages
              [] e.name = "UPDATED_MEETING" ->
                    /\ IndexesMeeting(t, e)
                    /\ t.resource /\ t.children = {}
                    /\ ~t.resources[1].hasMessages
              [] e.name = "UPDATED_MEETING_MEMBERS" ->
                    /\ IndexesMeeting(t, e)
                    /\ ~t.resource /\ t.children = {"resource_members"}
                    /\ ~t.resources[1].hasMessages
              [] e.name = "CREATED_MEETING_MESSAGE" ->
                    /\ IndexesMeeting(t, e)
                    /\ ~t.resource /\ t.children = {"meeting_message"}
                    /\ t.resources[1].hasMessages
                    /\ t.resources[1].messages = <<e.message>>
              [] OTHER ->
                    /\ t.op = "delete"
                    /\ t.id = e.meeting

\* A meeting has been created, has received a message and has been deleted.
C5_Witness ==
    /\ Len(emitted) = 3
    /\ emitted[1].name = "CREATED_MEETING"
    /\ emitted[2].name = "CREATED_MEETING_MESSAGE"
    /\ emitted[3].name = "DELETED_MEETING"
    /\ emitted[1].meeting = emitted[3].meeting
    /\ Len(tasks) = 3

\* the resources of a producer call whose meeting exists: supplied on the
\* resource, or stored under the resource id
Existing(resources) ==
    {k \in DOMAIN resources : resources[k].hasMeeting \/ resources[k].id \in db}

\* C9: the producer calls back with exactly one search document per resource
\* whose meeting exists, whether the meeting was supplied on the resource or
\* has to be fetched, mixed lists included; a deleted meeting yields neither a
\* document nor an error, and with no meeting at all the callback gets
\* neither error nor documents.
C9_OneDocumentPerMeeting ==
    (produced.called /\ ~produced.daoFails) =>
        LET r == produced.result
            existing == Existing(produced.resources)
        IN /\ r.outcome = "callback"
           /\ r.errs = <<>>
           /\ Len(r.docs) = Cardinality(existing)
           /\ \A id \in MeetingIds :
                  Cardinality({k \in DOMAIN r.docs : r.docs[k].id = id})
                    = Cardinality({k \in existing : produced.resources[k].id = id})

====
